---------------------------- MODULE Spec2Model ----------------------------
(***************************************************************************)
(* A model of av4-fc: the register-bus acquisition code (io.rs, fc.rs)     *)
(* and the actor pipeline (accel.rs, gyro.rs, mag.rs, fusion.rs).          *)
(*                                                                         *)
(* Bus side.  The I2C device is the environment: every bus operation       *)
(* consumes the next response of a script the environment chose for the    *)
(* call (as the MockI2CDevice of io.rs consumes its operations), and every *)
(* operation is appended to the device's log.  read_reg,                   *)
(* FlightController::new and FlightController::read_sample are sequential  *)
(* code over an exclusively borrowed bus, so each call is one action.      *)
(***************************************************************************)
EXTENDS Integers, Sequences, FiniteSets, TLC

VARIABLES
    log,      \* every operation the device has seen, oldest first
    owner,    \* who holds the bus handle: "harness", "fc" or "dropped"
    last,     \* the call that has just returned: arguments, result, outputs
    prev,     \* the call that returned before it, as remembered (history)
    ncalls,   \* calls made so far on this bus
    \* the actor pipeline
    rawq,     \* per kind: the raw samples waiting in the actor's source channel
    rawOpen,  \* per kind: the sending half of the source channel still exists
    apc,      \* per kind: where the channel actor's thread is
    held,     \* per kind: the raw sample process() has read and not yet sent
    fanin,    \* the SensorInput values waiting in the fan-in channel
    fpc,      \* where the fusion actor's thread is
    data,     \* the fusion actor's loop state (run's `data`)
    fused,    \* process()'s `fused` between its read and its send
    outq,     \* the fused outputs waiting in the downstream channel
    outOpen,  \* the downstream consumer's receiver still exists
    \* history of the pipeline (not read by any actor)
    produced, \* per kind: every raw sample put into the source, in order
    pulled,   \* per kind: every raw sample the actor has read, in order
    sent,     \* per kind: every SensorInput the actor put into the fan-in
    recvd,    \* every SensorInput the fusion actor has read, in order
    emitted,  \* every output the fusion actor put into the downstream channel
    taken     \* every output the downstream consumer has received

busVars == <<log, owner, last, prev, ncalls>>

actorVars == <<rawq, rawOpen, apc, held, produced, pulled, sent>>

fusionVars == <<fanin, fpc, data, fused, recvd, emitted>>

sinkVars == <<outq, outOpen, taken>>

pipeVars == <<actorVars, fusionVars, sinkVars>>

vars == <<busVars, pipeVars>>

----------------------------------------------------------------------------
(* Bounds of the model. *)

\* longest buffer a harness hands to read_reg
MaxLen == 2
\* calls on one bus (one Initialize and the Samples after it)
MaxCalls == 3
\* raw samples the three sources produce in all
MaxRaw == 4
\* raw samples the three sources produce in all, where the infinite
\* behaviours of the pipeline are examined
MaxRawFair == 2

----------------------------------------------------------------------------
(* Values. *)

Ok == "Ok"

\* transport errors of the bus (I::Error), opaque to the code
Errors == {"EIO", "ENXIO"}

\* stdio::Error::new(ErrorKind::NotFound, "MPU-9150 WhoAmI returned wrong
\* value").into()
WhoAmIError == "NotFound: MPU-9150 WhoAmI returned wrong value"

\* stdio::Error of a read_i16 past the end of the cursor, .into()
UnexpectedEof == "UnexpectedEof"

\* the bytes the environment draws from: 0x00, 0x10, 0x68, 0x80, 0xff
ByteVals == {0, 16, 104, 128, 255}

\* the register addresses a harness draws from: 0x00, 0x3b, 0xff
RegVals == {0, 59, 255}

\* register and configuration bytes of fc.rs
WHO_AM_I == 117
WHO_AM_I_VALUE == 104
PWR_MGMT_1 == 107
SMPLRT_DIV == 25
ACCEL_XOUT_H == 59
SAMPLE_LEN == (3 + 1 + 3) * 2

Zeros(n) == [i \in 1..n |-> 0]

----------------------------------------------------------------------------
(* The device: I2CDevice::write and I2CDevice::read. *)

\* what the device answers to an operation once its script is used up
DefaultResp == [res |-> Ok, data |-> <<>>, got |-> 0]

NextResp(dev) == IF dev.script = <<>> THEN DefaultResp ELSE Head(dev.script)

RestScript(dev) == IF dev.script = <<>> THEN <<>> ELSE Tail(dev.script)

\* bus.write(bytes): the device sees the bytes and answers Ok or an error
I2CWrite(dev, bytes) ==
    LET r == NextResp(dev) IN
    [dev |-> [script |-> RestScript(dev),
              log |-> Append(dev.log, [op |-> "write", data |-> bytes,
                                       len |-> Len(bytes), res |-> r.res])],
     res |-> r.res]

\* bus.read(buf): the device fills the buffer.  A successful read fills all
\* of it; a failed one has filled the first r.got bytes and left the rest
\* as the caller passed them (the mock of io.rs copies everything and then
\* returns its result: got = Len(buf)).
I2CRead(dev, buf) ==
    LET r == NextResp(dev)
        n == Len(buf)
        k == IF r.res = Ok THEN n ELSE r.got
        byte(i) == IF i <= Len(r.data) THEN r.data[i] ELSE 0
    IN
    [dev |-> [script |-> RestScript(dev),
              log |-> Append(dev.log, [op |-> "read", data |-> <<>>,
                                       len |-> n, res |-> r.res])],
     buf |-> [i \in 1..n |-> IF i <= k THEN byte(i) ELSE buf[i]],
     res |-> r.res]

----------------------------------------------------------------------------
(* io.rs *)

\* read_reg with the two bus operations in the wrong order
read_reg_reads_first(dev, reg, buf) ==
    LET r == I2CRead(dev, buf) IN
    IF r.res # Ok
    THEN r
    ELSE LET w == I2CWrite(r.dev, <<reg>>) IN
         [dev |-> w.dev, buf |-> r.buf, res |-> w.res]

\* read_reg that drops the result of the write instead of try!-ing it
read_reg_ignores_write_error(dev, reg, buf) ==
    I2CRead(I2CWrite(dev, <<reg>>).dev, buf)

\* read_reg that swallows the error of the read
read_reg_swallows_read_error(dev, reg, buf) ==
    LET w == I2CWrite(dev, <<reg>>) IN
    IF w.res # Ok
    THEN [dev |-> w.dev, buf |-> buf, res |-> w.res]
    ELSE [I2CRead(w.dev, buf) EXCEPT !.res = Ok]

\* pub fn read_reg(bus, reg, buf): try!(bus.write(&[reg])); bus.read(buf)
read_reg(dev, reg, buf) ==
    LET w == I2CWrite(dev, <<reg>>) IN
    IF w.res # Ok
    THEN [dev |-> w.dev, buf |-> buf, res |-> w.res]
    ELSE I2CRead(w.dev, buf)

----------------------------------------------------------------------------
(* fc.rs *)

\* stdio::Cursor::new(buf)
Cursor(buf) == [buf |-> buf, pos |-> 0]

\* an unsigned 16-bit pattern read as i16 (two's complement)
AsI16(u) == IF u >= 32768 THEN u - 65536 ELSE u

\* read_i16 with the bytes in little-endian order
read_i16_LittleEndian(rdr) ==
    IF rdr.pos + 2 > Len(rdr.buf)
    THEN [rdr |-> [rdr EXCEPT !.pos = Len(rdr.buf)], res |-> UnexpectedEof,
          val |-> 0]
    ELSE [rdr |-> [rdr EXCEPT !.pos = @ + 2], res |-> Ok,
          val |-> AsI16(rdr.buf[rdr.pos + 2] * 256 + rdr.buf[rdr.pos + 1])]

\* rdr.read_i16::<BigEndian>(): the next two bytes, high byte first; an
\* UnexpectedEof error, the cursor not advanced past the end, when fewer
\* than two bytes are left
read_i16_BigEndian(rdr) ==
    IF rdr.pos + 2 > Len(rdr.buf)
    THEN [rdr |-> [rdr EXCEPT !.pos = Len(rdr.buf)], res |-> UnexpectedEof,
          val |-> 0]
    ELSE [rdr |-> [rdr EXCEPT !.pos = @ + 2], res |-> Ok,
          val |-> AsI16(rdr.buf[rdr.pos + 1] * 256 + rdr.buf[rdr.pos + 2])]

\* Physical values are f32 in the code.  The model keeps them as exact
\* fractions in lowest terms (f32 rounding of x / 340.0 and x / 131.0 is not
\* modelled; x / 16384.0 is exact in f32 for every i16).
RECURSIVE GCD(_, _)
GCD(a, b) == IF b = 0 THEN a ELSE GCD(b, a % b)

Abs(x) == IF x < 0 THEN -x ELSE x

Frac(num, den) ==
    LET g == GCD(Abs(num), den) IN [num |-> num \div g, den |-> den \div g]

\* (raw as f32) / 16384.0
AccelG(raw) == Frac(raw, 16384)

\* (raw as f32) / 340.0 + 35.0
TempC(raw) == Frac(raw + 35 * 340, 340)

\* (raw as f32) / 131.0
GyroDps(raw) == Frac(raw, 131)

\* Result<MPUSample, _> carries a sample or none: a sequence of length 0 or 1
NoSample == <<>>

\* the first error of a sequence of results, Ok when there is none
RECURSIVE FirstErr(_)
FirstErr(rs) ==
    IF rs = <<>> THEN Ok
    ELSE IF Head(rs) # Ok THEN Head(rs) ELSE FirstErr(Tail(rs))

\* the decoding half of read_sample: seven read_i16 on a cursor over the
\* buffer, each under try!, in the order the MPUSample literal lists them
decode_sample(buf) ==
    LET ax == read_i16_BigEndian(Cursor(buf))
        ay == read_i16_BigEndian(ax.rdr)
        az == read_i16_BigEndian(ay.rdr)
        t  == read_i16_BigEndian(az.rdr)
        gx == read_i16_BigEndian(t.rdr)
        gy == read_i16_BigEndian(gx.rdr)
        gz == read_i16_BigEndian(gy.rdr)
        e  == FirstErr(<<ax.res, ay.res, az.res, t.res, gx.res, gy.res, gz.res>>)
    IN
    IF e # Ok
    THEN [res |-> e, sample |-> NoSample, pos |-> gz.rdr.pos]
    ELSE [res |-> Ok,
          sample |-> <<[accel |-> <<AccelG(ax.val), AccelG(ay.val), AccelG(az.val)>>,
                        temp |-> TempC(t.val),
                        gyro |-> <<GyroDps(gx.val), GyroDps(gy.val), GyroDps(gz.val)>>]>>,
          pos |-> gz.rdr.pos]

\* read_sample that fetches the window in two block reads: acceleration and
\* temperature (8 bytes at 0x3b), then angular rate (6 bytes at 0x43)
read_sample_split_reads(dev) ==
    LET r1 == read_reg(dev, ACCEL_XOUT_H, Zeros(8)) IN
    IF r1.res # Ok
    THEN [dev |-> r1.dev, res |-> r1.res, sample |-> NoSample, buf |-> r1.buf,
          pos |-> 0]
    ELSE
    LET r2 == read_reg(r1.dev, ACCEL_XOUT_H + 8, Zeros(6)) IN
    IF r2.res # Ok
    THEN [dev |-> r2.dev, res |-> r2.res, sample |-> NoSample,
          buf |-> r1.buf \o r2.buf, pos |-> 0]
    ELSE LET d == decode_sample(r1.buf \o r2.buf) IN
         [dev |-> r2.dev, res |-> d.res, sample |-> d.sample,
          buf |-> r1.buf \o r2.buf, pos |-> d.pos]

\* read_sample that, called again after a failed call, takes the register
\* pointer as still set and reads without selecting the register
read_sample_skips_select_on_retry(dev) ==
    LET r == IF last.call = "read_sample" /\ last.res # Ok
             THEN I2CRead(dev, Zeros(SAMPLE_LEN))
             ELSE read_reg(dev, ACCEL_XOUT_H, Zeros(SAMPLE_LEN))
    IN
    IF r.res # Ok
    THEN [dev |-> r.dev, res |-> r.res, sample |-> NoSample, buf |-> r.buf,
          pos |-> 0]
    ELSE LET d == decode_sample(r.buf) IN
         [dev |-> r.dev, res |-> d.res, sample |-> d.sample, buf |-> r.buf,
          pos |-> d.pos]

\* read_sample that tries the block read a second time when it fails,
\* without selecting the register again
read_sample_rereads_on_error(dev) ==
    LET r1 == read_reg(dev, ACCEL_XOUT_H, Zeros(SAMPLE_LEN))
        failedRead == r1.res # Ok /\ Len(r1.dev.log) = Len(dev.log) + 2
        r == IF failedRead
             THEN I2CRead(r1.dev, Zeros(SAMPLE_LEN))
             ELSE r1
    IN
    IF r.res # Ok
    THEN [dev |-> r.dev, res |-> r.res, sample |-> NoSample, buf |-> r.buf,
          pos |-> 0]
    ELSE LET d == decode_sample(r.buf) IN
         [dev |-> r.dev, res |-> d.res, sample |-> d.sample, buf |-> r.buf,
          pos |-> d.pos]

\* read_sample with a buffer one word short, [0u8; (3 + 3) * 2], for the
\* seven words it decodes
read_sample_short_buffer(dev) ==
    LET r == read_reg(dev, ACCEL_XOUT_H, Zeros((3 + 3) * 2)) IN
    IF r.res # Ok
    THEN [dev |-> r.dev, res |-> r.res, sample |-> NoSample, buf |-> r.buf,
          pos |-> 0]
    ELSE LET d == decode_sample(r.buf) IN
         [dev |-> r.dev, res |-> d.res, sample |-> d.sample, buf |-> r.buf,
          pos |-> d.pos]

\* FlightController::read_sample(&mut self): one read_reg of the 14 bytes at
\* 0x3b into a fresh zeroed buffer, then the decoding
read_sample(dev) ==
    LET r == read_reg(dev, ACCEL_XOUT_H, Zeros(SAMPLE_LEN)) IN
    IF r.res # Ok
    THEN [dev |-> r.dev, res |-> r.res, sample |-> NoSample, buf |-> r.buf,
          pos |-> 0]
    ELSE LET d == decode_sample(r.buf) IN
         [dev |-> r.dev, res |-> d.res, sample |-> d.sample, buf |-> r.buf,
          pos |-> d.pos]

\* new without the comparison of the identity byte
FlightController_new_skips_identity_check(dev) ==
    LET id == read_reg(dev, WHO_AM_I, Zeros(1)) IN
    IF id.res # Ok
    THEN [dev |-> id.dev, res |-> id.res, made |-> FALSE, buf |-> id.buf]
    ELSE
    LET wake == I2CWrite(id.dev, <<PWR_MGMT_1, 0>>) IN
    IF wake.res # Ok
    THEN [dev |-> wake.dev, res |-> wake.res, made |-> FALSE, buf |-> id.buf]
    ELSE
    LET cfg == I2CWrite(wake.dev, <<SMPLRT_DIV, 199, 6, 0, 0>>) IN
    IF cfg.res # Ok
    THEN [dev |-> cfg.dev, res |-> cfg.res, made |-> FALSE, buf |-> id.buf]
    ELSE [dev |-> cfg.dev, res |-> Ok, made |-> TRUE, buf |-> id.buf]

\* new that drops the result of the wake-up write instead of try!-ing it
FlightController_new_ignores_wake_error(dev) ==
    LET id == read_reg(dev, WHO_AM_I, Zeros(1)) IN
    IF id.res # Ok
    THEN [dev |-> id.dev, res |-> id.res, made |-> FALSE, buf |-> id.buf]
    ELSE IF id.buf[1] # WHO_AM_I_VALUE
    THEN [dev |-> id.dev, res |-> WhoAmIError, made |-> FALSE, buf |-> id.buf]
    ELSE
    LET wake == I2CWrite(id.dev, <<PWR_MGMT_1, 0>>)
        cfg == I2CWrite(wake.dev, <<SMPLRT_DIV, 199, 6, 0, 0>>)
    IN
    IF cfg.res # Ok
    THEN [dev |-> cfg.dev, res |-> cfg.res, made |-> FALSE, buf |-> id.buf]
    ELSE [dev |-> cfg.dev, res |-> Ok, made |-> TRUE, buf |-> id.buf]

\* FlightController::new(bus): read WhoAmI (0x75) and compare with 0x68,
\* then the wake-up write and the configuration write, each under try!.
\* made says whether a FlightController was returned.
FlightController_new(dev) ==
    LET id == read_reg(dev, WHO_AM_I, Zeros(1)) IN
    IF id.res # Ok
    THEN [dev |-> id.dev, res |-> id.res, made |-> FALSE, buf |-> id.buf]
    ELSE IF id.buf[1] # WHO_AM_I_VALUE
    THEN [dev |-> id.dev, res |-> WhoAmIError, made |-> FALSE, buf |-> id.buf]
    ELSE
    LET wake == I2CWrite(id.dev, <<PWR_MGMT_1, 0>>) IN
    IF wake.res # Ok
    THEN [dev |-> wake.dev, res |-> wake.res, made |-> FALSE, buf |-> id.buf]
    ELSE
    LET cfg == I2CWrite(wake.dev, <<SMPLRT_DIV, 199, 6, 0, 0>>) IN
    IF cfg.res # Ok
    THEN [dev |-> cfg.dev, res |-> cfg.res, made |-> FALSE, buf |-> id.buf]
    ELSE [dev |-> cfg.dev, res |-> Ok, made |-> TRUE, buf |-> id.buf]

----------------------------------------------------------------------------
(* The environment of the bus code: what the device answers. *)

\* the answers to a write: Ok or a transport error
WriteResps == {[res |-> r, data |-> <<>>, got |-> 0] : r \in {Ok} \cup Errors}

\* the 14-byte register windows the device may hold: one 16-bit word set to
\* any pair of ByteVals and the others zero, and two windows of 14 distinct
\* bytes
OneWord(w, hi, lo) ==
    [i \in 1..SAMPLE_LEN |-> IF i = 2 * w + 1 THEN hi
                             ELSE IF i = 2 * w + 2 THEN lo ELSE 0]

Ramp == [i \in 1..SAMPLE_LEN |-> i]

HighRamp == [i \in 1..SAMPLE_LEN |-> 255 - i]

SampleWindows ==
    {OneWord(w, hi, lo) : w \in 0..6, hi \in ByteVals, lo \in ByteVals}
        \cup {Ramp, HighRamp}

\* the contents the device may deliver to a read of n bytes
Data(n) == IF n = SAMPLE_LEN THEN SampleWindows ELSE [1..n -> ByteVals]

\* the places a failing read of n bytes may stop at
Stops(n) == {0, n \div 2, n}

\* the answers to a read of n bytes: Ok with the bytes, or a transport
\* error after some of the bytes
ReadResps(n) ==
    {[res |-> Ok, data |-> d, got |-> n] : d \in Data(n)}
        \cup {[res |-> e, data |-> SubSeq(d, 1, g), got |-> g] :
                 e \in Errors, g \in Stops(n),
                 d \in IF n = SAMPLE_LEN THEN {Ramp} ELSE Data(n)}

\* the answers consumed by a call that left the log at newlog
Used(script, oldlog, newlog) ==
    LET k == Len(newlog) - Len(oldlog) IN
    SubSeq(script, 1, IF k < Len(script) THEN k ELSE Len(script))

NoCall ==
    [call |-> "none", reg |-> 0, buf0 |-> <<>>, resp |-> <<>>, from |-> 0,
     res |-> Ok, buf |-> <<>>, sample |-> NoSample, pos |-> 0, made |-> FALSE]

\* what the history keeps of a call once the next one has returned: a
\* failed call as it was, a successful one without its data
Remembered(c) ==
    IF c.res = Ok
    THEN [c EXCEPT !.buf0 = <<>>, !.resp = <<>>, !.buf = <<>>,
                   !.sample = NoSample]
    ELSE c

BusInit ==
    /\ log = <<>>
    /\ owner = "harness"
    /\ last = NoCall
    /\ prev = NoCall
    /\ ncalls = 0

\* A harness calls read_reg once on a fresh device, with a buffer of n bytes
\* that holds old contents (the tests of io.rs: one mock device per call).
CallReadReg ==
    /\ owner = "harness"
    /\ ncalls = 0
    /\ \E reg \in RegVals, n \in 0..MaxLen, old \in {0, 238} :
         \E w \in WriteResps, rd \in ReadResps(n) :
           LET buf0 == [i \in 1..n |-> old]
               script == <<w, rd>>
               r == read_reg([script |-> script, log |-> log], reg, buf0)
           IN
           /\ log' = r.dev.log
           /\ last' = [call |-> "read_reg", reg |-> reg, buf0 |-> buf0,
                       resp |-> Used(script, log, r.dev.log), from |-> Len(log),
                       res |-> r.res, buf |-> r.buf, sample |-> NoSample,
                       pos |-> 0, made |-> FALSE]
    /\ prev' = Remembered(last)
    /\ ncalls' = ncalls + 1
    /\ UNCHANGED <<owner, pipeVars>>

\* FlightController::new(bus) takes the bus: the unit owns it on success,
\* and it is dropped with the error otherwise.
CallNew ==
    /\ owner = "harness"
    /\ ncalls = 0
    /\ \E w1 \in WriteResps, rd \in ReadResps(1), w2 \in WriteResps,
          w3 \in WriteResps :
         LET script == <<w1, rd, w2, w3>>
             r == FlightController_new([script |-> script, log |-> log])
         IN
         /\ log' = r.dev.log
         /\ owner' = IF r.made THEN "fc" ELSE "dropped"
         /\ last' = [call |-> "new", reg |-> WHO_AM_I, buf0 |-> Zeros(1),
                     resp |-> Used(script, log, r.dev.log), from |-> Len(log),
                     res |-> r.res, buf |-> r.buf, sample |-> NoSample,
                     pos |-> 0, made |-> r.made]
    /\ prev' = Remembered(last)
    /\ ncalls' = ncalls + 1
    /\ UNCHANGED pipeVars

\* flight_controller.read_sample() on an initialized unit
CallReadSample ==
    /\ owner = "fc"
    /\ ncalls < MaxCalls
    /\ \E w \in WriteResps, rd \in ReadResps(SAMPLE_LEN) :
         LET script == <<w, rd>>
             r == read_sample([script |-> script, log |-> log])
         IN
         /\ log' = r.dev.log
         /\ last' = [call |-> "read_sample", reg |-> ACCEL_XOUT_H,
                     buf0 |-> Zeros(SAMPLE_LEN),
                     resp |-> Used(script, log, r.dev.log), from |-> Len(log),
                     res |-> r.res, buf |-> r.buf, sample |-> r.sample,
                     pos |-> r.pos, made |-> FALSE]
    /\ prev' = Remembered(last)
    /\ ncalls' = ncalls + 1
    /\ UNCHANGED <<owner, pipeVars>>

----------------------------------------------------------------------------
(* accel.rs, gyro.rs, mag.rs: the three channel actors.  The three files   *)
(* are the same code up to the names, so the model has one definition with *)
(* the kind as a parameter.  Each actor is a thread: a step is what it     *)
(* does between two points where another thread can be seen to run, the    *)
(* blocking recv() and the send().                                         *)

Kinds == {"Accel", "Gyro", "Mag"}

\* RawAccelData(u64), RawGyroData(u64), RawMagData(u64)
RawData(k, v) == [kind |-> k, raw |-> v]

\* a processed sample with a default payload instead of the raw one
ProcessedData_default(raw) == [kind |-> raw.kind, val |-> 0]

\* let processed = ProcessedAccelData(raw.0)  (and Gyro, Mag)
ProcessedData(raw) == [kind |-> raw.kind, val |-> raw.raw]

\* a conversion whose gyro impl was copied from the accel one and kept its
\* variant
SensorInput_from_copied_variant(p) ==
    CASE p.kind = "Accel" -> [tag |-> "Accel", data |-> p]
      [] p.kind = "Gyro" -> [tag |-> "Accel", data |-> p]
      [] p.kind = "Mag" -> [tag |-> "Mag", data |-> p]

\* impl From<accel::ProcessedAccelData> for SensorInput and its two
\* siblings: the variant is chosen by the type of the processed sample
SensorInput_from(p) ==
    CASE p.kind = "Accel" -> [tag |-> "Accel", data |-> p]
      [] p.kind = "Gyro" -> [tag |-> "Gyro", data |-> p]
      [] p.kind = "Mag" -> [tag |-> "Mag", data |-> p]

\* a read that does not wait: self.try_recv().unwrap(), which panics on an
\* empty queue
read_raw_try_recv(q, senderExists) ==
    IF q # <<>> THEN [res |-> "Ok", val |-> <<Head(q)>>, q |-> Tail(q)]
    ELSE [res |-> "Panic", val |-> <<>>, q |-> q]

\* read_accel / read_gyro / read_mag of mpsc::Receiver: self.recv().unwrap().
\* recv() yields the oldest queued value; with the queue empty it blocks
\* while a sender exists and fails once none does, and unwrap() panics.
read_raw(q, senderExists) ==
    IF q # <<>> THEN [res |-> "Ok", val |-> <<Head(q)>>, q |-> Tail(q)]
    ELSE IF senderExists THEN [res |-> "Block", val |-> <<>>, q |-> q]
    ELSE [res |-> "Panic", val |-> <<>>, q |-> q]

\* a send whose result is ignored (let _ = self.send(..)) instead of unwrapped
send_processed_ignores_error(q, receiverExists, p) ==
    IF receiverExists
    THEN [res |-> "Ok", q |-> Append(q, SensorInput_from(p))]
    ELSE [res |-> "Ok", q |-> q]

\* send_accel / send_gyro / send_mag of mpsc::Sender<T>:
\* self.send(data.into()).unwrap().  send() never blocks: it queues the
\* value while the receiver exists and fails otherwise, and unwrap() panics.
send_processed(q, receiverExists, p) ==
    IF receiverExists
    THEN [res |-> "Ok", q |-> Append(q, SensorInput_from(p))]
    ELSE [res |-> "Panic", q |-> q]

\* the thread of a channel actor has ended
ActorDead(k) == apc[k] \in {"source_failed", "sink_failed"}

\* the receiver of the fan-in channel exists while the fusion thread runs
FusionDead == fpc \in {"source_failed", "sink_failed"}

\* what a sequence gained at its end
Gained(old, new) == SubSeq(new, Len(old) + 1, Len(new))

\* the raw samples produced so far, over the three sources
NumProduced ==
    Len(produced["Accel"]) + Len(produced["Gyro"]) + Len(produced["Mag"])

\* the scripted sources: the payload of the i-th raw sample of each kind,
\* all different, so that a lost, repeated, swapped or misrouted sample shows
Payload(k, i) ==
    CASE k = "Accel" -> i
      [] k = "Gyro" -> 100 + i
      [] k = "Mag" -> 200 + i

\* The environment puts the next raw sample into the source of actor k.
ProduceUpTo(k, n) ==
    /\ rawOpen[k]
    /\ ~ActorDead(k)
    /\ NumProduced < n
    /\ LET v == Payload(k, Len(produced[k]) + 1) IN
         /\ rawq' = [rawq EXCEPT ![k] = Append(@, RawData(k, v))]
         /\ produced' = [produced EXCEPT ![k] = Append(@, RawData(k, v))]
    /\ UNCHANGED <<rawOpen, apc, held, pulled, sent, fusionVars, sinkVars,
                   busVars>>

Produce(k) == ProduceUpTo(k, MaxRaw)

\* The environment drops the sending half of the source of actor k.
CloseSource(k) ==
    /\ rawOpen[k]
    /\ rawOpen' = [rawOpen EXCEPT ![k] = FALSE]
    /\ UNCHANGED <<rawq, apc, held, produced, pulled, sent, fusionVars,
                   sinkVars, busVars>>

\* a channel actor that reads ahead: it takes the next raw sample while the
\* previous one is still undelivered
ActorRead_reads_ahead(k) ==
    /\ apc[k] \in {"recv", "send"}
    /\ LET r == read_raw(rawq[k], rawOpen[k]) IN
       /\ r.res # "Block"
       /\ IF r.res = "Ok"
          THEN /\ rawq' = [rawq EXCEPT ![k] = r.q]
               /\ held' = [held EXCEPT ![k] = r.val]
               /\ pulled' = [pulled EXCEPT ![k] = @ \o r.val]
               /\ apc' = [apc EXCEPT ![k] = "send"]
          ELSE /\ rawq' = [rawq EXCEPT ![k] = <<>>]
               /\ apc' = [apc EXCEPT ![k] = "source_failed"]
               /\ UNCHANGED <<held, pulled>>
    /\ UNCHANGED <<rawOpen, produced, sent, fusionVars, sinkVars, busVars>>

\* process(), first half: let raw = source.read_accel().  A panic unwinds the
\* thread, which drops its source (and what is queued in it) and its sink.
ActorRead(k) ==
    /\ apc[k] = "recv"
    /\ LET r == read_raw(rawq[k], rawOpen[k]) IN
       /\ r.res # "Block"
       /\ IF r.res = "Ok"
          THEN /\ rawq' = [rawq EXCEPT ![k] = r.q]
               /\ held' = [held EXCEPT ![k] = r.val]
               /\ pulled' = [pulled EXCEPT ![k] = @ \o r.val]
               /\ apc' = [apc EXCEPT ![k] = "send"]
          ELSE /\ rawq' = [rawq EXCEPT ![k] = <<>>]
               /\ apc' = [apc EXCEPT ![k] = "source_failed"]
               /\ UNCHANGED <<held, pulled>>
    /\ UNCHANGED <<rawOpen, produced, sent, fusionVars, sinkVars, busVars>>

\* a channel actor that folds its sample into the accumulator itself, as it
\* would with an accumulator shared between the threads
ActorSend_folds_itself(k) ==
    /\ apc[k] = "send"
    /\ LET r == send_processed(fanin, ~FusionDead, ProcessedData(held[k][1])) IN
       /\ fanin' = r.q
       /\ sent' = [sent EXCEPT ![k] = @ \o Gained(fanin, r.q)]
       /\ fused' = <<data>>
       /\ IF r.res = "Ok"
          THEN /\ apc' = [apc EXCEPT ![k] = "recv"]
               /\ UNCHANGED rawq
          ELSE /\ apc' = [apc EXCEPT ![k] = "sink_failed"]
               /\ rawq' = [rawq EXCEPT ![k] = <<>>]
    /\ held' = [held EXCEPT ![k] = <<>>]
    /\ UNCHANGED <<rawOpen, produced, pulled, fpc, data, recvd, emitted,
                   sinkVars, busVars>>

\* a channel actor whose sink is a rendezvous-like bounded channel
\* (mpsc::sync_channel(1)): the send waits while a value is queued
ActorSend_bounded(k) ==
    /\ apc[k] = "send"
    /\ FusionDead \/ Len(fanin) < 1
    /\ LET r == send_processed(fanin, ~FusionDead, ProcessedData(held[k][1])) IN
       /\ fanin' = r.q
       /\ sent' = [sent EXCEPT ![k] = @ \o Gained(fanin, r.q)]
       /\ IF r.res = "Ok"
          THEN /\ apc' = [apc EXCEPT ![k] = "recv"]
               /\ UNCHANGED rawq
          ELSE /\ apc' = [apc EXCEPT ![k] = "sink_failed"]
               /\ rawq' = [rawq EXCEPT ![k] = <<>>]
    /\ held' = [held EXCEPT ![k] = <<>>]
    /\ UNCHANGED <<rawOpen, produced, pulled, fpc, data, fused, recvd, emitted,
                   sinkVars, busVars>>

\* process(), second half: let processed = ProcessedAccelData(raw.0);
\* sink.send_accel(processed); and run's loop goes back to the read.
ActorSend(k) ==
    /\ apc[k] = "send"
    /\ LET r == send_processed(fanin, ~FusionDead, ProcessedData(held[k][1])) IN
       /\ fanin' = r.q
       /\ sent' = [sent EXCEPT ![k] = @ \o Gained(fanin, r.q)]
       /\ IF r.res = "Ok"
          THEN /\ apc' = [apc EXCEPT ![k] = "recv"]
               /\ UNCHANGED rawq
          ELSE /\ apc' = [apc EXCEPT ![k] = "sink_failed"]
               /\ rawq' = [rawq EXCEPT ![k] = <<>>]
    /\ held' = [held EXCEPT ![k] = <<>>]
    /\ UNCHANGED <<rawOpen, produced, pulled, fpc, data, fused, recvd, emitted,
                   sinkVars, busVars>>

----------------------------------------------------------------------------
(* fusion.rs: the fusion actor. *)

\* #[derive(Default)] struct FusedSensorOutput {}: a value without fields
FusedSensorOutput_default == <<>>

\* FusedSensorOutput::join(self, _more_input): returns self
join(self, more_input) == self

\* the sender handles of the fan-in channel: one per running channel actor
FaninSenders == Cardinality({k \in Kinds : ~ActorDead(k)})

\* a read that returns the newest queued value instead of the oldest
read_sensor_input_newest(q, senders) ==
    IF q # <<>>
    THEN [res |-> "Ok", val |-> <<q[Len(q)]>>, q |-> SubSeq(q, 1, Len(q) - 1)]
    ELSE IF senders > 0 THEN [res |-> "Block", val |-> <<>>, q |-> q]
    ELSE [res |-> "Panic", val |-> <<>>, q |-> q]

\* a read that serves the accelerometer first: the oldest queued Accel input
\* if there is one, else the oldest input
read_sensor_input_prefers_accel(q, senders) ==
    LET idx == {i \in 1..Len(q) : q[i].tag = "Accel"}
        i == IF idx = {} THEN 1 ELSE CHOOSE a \in idx : \A b \in idx : a <= b
    IN IF q # <<>>
       THEN [res |-> "Ok", val |-> <<q[i]>>,
             q |-> SubSeq(q, 1, i - 1) \o SubSeq(q, i + 1, Len(q))]
       ELSE IF senders > 0 THEN [res |-> "Block", val |-> <<>>, q |-> q]
       ELSE [res |-> "Panic", val |-> <<>>, q |-> q]

\* a read that fails on an empty queue as soon as one of the three senders
\* is gone
read_sensor_input_needs_all_senders(q, senders) ==
    IF q # <<>> THEN [res |-> "Ok", val |-> <<Head(q)>>, q |-> Tail(q)]
    ELSE IF senders = 3 THEN [res |-> "Block", val |-> <<>>, q |-> q]
    ELSE [res |-> "Panic", val |-> <<>>, q |-> q]

\* read_sensor_input of mpsc::Receiver<SensorInput>: self.recv().unwrap()
read_sensor_input(q, senders) ==
    IF q # <<>> THEN [res |-> "Ok", val |-> <<Head(q)>>, q |-> Tail(q)]
    ELSE IF senders > 0 THEN [res |-> "Block", val |-> <<>>, q |-> q]
    ELSE [res |-> "Panic", val |-> <<>>, q |-> q]

\* a send that queues the output twice
send_sensor_output_twice(q, receiverExists, output) ==
    IF receiverExists
    THEN [res |-> "Ok", q |-> q \o <<output, output>>]
    ELSE [res |-> "Panic", q |-> q]

\* send_sensor_output of mpsc::Sender<T>: self.send(output.into()).unwrap()
send_sensor_output(q, receiverExists, output) ==
    IF receiverExists
    THEN [res |-> "Ok", q |-> Append(q, output)]
    ELSE [res |-> "Panic", q |-> q]

\* a fusion actor that looks at its sink before it reads: with the
\* consumer's receiver gone it ends at its read, without taking an input
FusionRead_checks_sink_first ==
    /\ fpc = "recv"
    /\ IF ~outOpen
       THEN /\ fanin' = <<>>
            /\ fpc' = "sink_failed"
            /\ UNCHANGED <<recvd, fused>>
       ELSE LET r == read_sensor_input(fanin, FaninSenders) IN
            /\ r.res # "Block"
            /\ IF r.res = "Ok"
               THEN /\ fanin' = r.q
                    /\ recvd' = recvd \o r.val
                    /\ fused' = <<join(data, r.val[1])>>
                    /\ fpc' = "send"
               ELSE /\ fanin' = <<>>
                    /\ fpc' = "source_failed"
                    /\ UNCHANGED <<recvd, fused>>
    /\ UNCHANGED <<data, emitted, actorVars, sinkVars, busVars>>

\* process(), first half: let input = source.read_sensor_input();
\* let fused = data.join(input).  A panic unwinds the thread, which drops
\* the fan-in receiver (and what is queued in it) and the downstream sender.
FusionRead ==
    /\ fpc = "recv"
    /\ LET r == read_sensor_input(fanin, FaninSenders) IN
       /\ r.res # "Block"
       /\ IF r.res = "Ok"
          THEN /\ fanin' = r.q
               /\ recvd' = recvd \o r.val
               /\ fused' = <<join(data, r.val[1])>>
               /\ fpc' = "send"
          ELSE /\ fanin' = <<>>
               /\ fpc' = "source_failed"
               /\ UNCHANGED <<recvd, fused>>
    /\ UNCHANGED <<data, emitted, actorVars, sinkVars, busVars>>

\* process(), second half: sink.send_sensor_output(fused.clone()); fused is
\* returned and run stores it: data = process(data, &source, &sink).
FusionSend ==
    /\ fpc = "send"
    /\ LET r == send_sensor_output(outq, outOpen, fused[1]) IN
       /\ outq' = r.q
       /\ emitted' = emitted \o Gained(outq, r.q)
       /\ IF r.res = "Ok"
          THEN /\ data' = fused[1]
               /\ fpc' = "recv"
               /\ UNCHANGED fanin
          ELSE /\ fpc' = "sink_failed"
               /\ fanin' = <<>>
               /\ UNCHANGED data
    /\ fused' = <<>>
    /\ UNCHANGED <<recvd, actorVars, outOpen, taken, busVars>>

\* The downstream consumer receives the oldest queued output.
ConsumerTake ==
    /\ outOpen
    /\ outq # <<>>
    /\ outq' = Tail(outq)
    /\ taken' = Append(taken, Head(outq))
    /\ UNCHANGED <<outOpen, actorVars, fusionVars, busVars>>

\* The downstream consumer drops its receiver, and what is queued with it.
ConsumerDrop ==
    /\ outOpen
    /\ outOpen' = FALSE
    /\ outq' = <<>>
    /\ UNCHANGED <<taken, actorVars, fusionVars, busVars>>

\* spawn(source, sink) of the four actors, the three channel actors' sinks
\* being senders of one channel whose receiver is the fusion actor's source;
\* run's `let mut data = FusedSensorOutput::default()`
PipeInit ==
    /\ rawq = [k \in Kinds |-> <<>>]
    /\ rawOpen = [k \in Kinds |-> TRUE]
    /\ apc = [k \in Kinds |-> "recv"]
    /\ held = [k \in Kinds |-> <<>>]
    /\ fanin = <<>>
    /\ fpc = "recv"
    /\ data = FusedSensorOutput_default
    /\ fused = <<>>
    /\ outq = <<>>
    /\ outOpen = TRUE
    /\ produced = [k \in Kinds |-> <<>>]
    /\ pulled = [k \in Kinds |-> <<>>]
    /\ sent = [k \in Kinds |-> <<>>]
    /\ recvd = <<>>
    /\ emitted = <<>>
    /\ taken = <<>>

Init == BusInit /\ PipeInit

\* The pipeline: the four actors, the three sources and the consumer.
NextPipeline ==
    \/ \E k \in Kinds : Produce(k)
    \/ \E k \in Kinds : CloseSource(k)
    \/ \E k \in Kinds : ActorRead(k)
    \/ \E k \in Kinds : ActorSend(k)
    \/ FusionRead
    \/ FusionSend
    \/ ConsumerTake
    \/ ConsumerDrop

SpecPipeline == Init /\ [][NextPipeline]_vars

\* Each of the four actors is a thread of its own (thread::spawn in spawn):
\* a thread that can take its next step is eventually scheduled.  The
\* sources and the consumer are the environment and owe nothing.
FairThreads ==
    /\ \A k \in Kinds : WF_vars(ActorRead(k)) /\ WF_vars(ActorSend(k))
    /\ WF_vars(FusionRead)
    /\ WF_vars(FusionSend)

\* The pipeline with sources that yield fewer raw samples, for the
\* properties of its infinite behaviours.
NextPipelineFair ==
    \/ \E k \in Kinds : ProduceUpTo(k, MaxRawFair)
    \/ \E k \in Kinds : CloseSource(k)
    \/ \E k \in Kinds : ActorRead(k)
    \/ \E k \in Kinds : ActorSend(k)
    \/ FusionRead
    \/ FusionSend
    \/ ConsumerTake
    \/ ConsumerDrop

SpecPipelineFair == Init /\ [][NextPipelineFair]_vars /\ FairThreads

\* One bus: either a harness calls read_reg on it, or it is given to an
\* acquisition unit, which is initialized and then sampled.
NextBus == CallReadReg \/ CallNew \/ CallReadSample

SpecBus == Init /\ [][NextBus]_vars

\* the operations of the call that has just returned
Trace == SubSeq(log, last.from + 1, Len(log))

----------------------------------------------------------------------------
(* Claims about the block-read protocol and the acquisition unit. *)

WriteOp(bytes, res) ==
    [op |-> "write", data |-> bytes, len |-> Len(bytes), res |-> res]

ReadOp(n, res) == [op |-> "read", data |-> <<>>, len |-> n, res |-> res]

\* the device's answers to the first and second operation of the last call
Answer(i) == last.resp[i]

\* C1: a read_reg(r, buf) call with Len(buf) = n starts with one bus write of
\* exactly the byte <<r>>; when that write succeeds it is followed by one
\* bus read of n bytes (C2 states the case of a failing write); the call
\* issues no other bus operation; and when both succeed the call returns Ok
\* and the buffer holds the n bytes the device delivered.
C1_ReadRegWriteThenRead ==
    last.call = "read_reg" =>
        LET n == Len(last.buf0) IN
        /\ Len(Trace) \in {1, 2}
        /\ Trace[1].op = "write" /\ Trace[1].data = <<last.reg>>
        /\ Trace[1].res = Answer(1).res
        /\ Answer(1).res = Ok =>
              /\ Len(Trace) = 2
              /\ Trace[2].op = "read" /\ Trace[2].len = n
        /\ Len(Trace) = 2 => Trace[2].op = "read" /\ Trace[2].len = n
        /\ (Len(last.resp) = 2 /\ Answer(1).res = Ok /\ Answer(2).res = Ok) =>
              /\ last.res = Ok
              /\ last.buf = Answer(2).data
              /\ Len(last.buf) = n

C1_Witness ==
    /\ last.call = "read_reg"
    /\ last.res = Ok
    /\ last.reg = 59
    /\ last.buf0 = <<238, 238>>
    /\ last.buf = <<16, 255>>
    /\ Trace = <<WriteOp(<<59>>, Ok), ReadOp(2, Ok)>>

\* C2: when the register-select write of a read_reg call fails, the call's
\* bus trace is that single failed write, no read is performed, and the call
\* returns the write's error.
C2_WriteFailureStopsReadReg ==
    (last.call = "read_reg" /\ Answer(1).res \in Errors) =>
        /\ Trace = <<WriteOp(<<last.reg>>, Answer(1).res)>>
        /\ \A i \in 1..Len(Trace) : Trace[i].op # "read"
        /\ last.res = Answer(1).res

C2_Witness ==
    /\ last.call = "read_reg"
    /\ Answer(1).res = "ENXIO"
    /\ last.res = "ENXIO"
    /\ Len(last.buf0) = 2
    /\ Len(Trace) = 1

\* C3: when the write of a block read succeeds and its read fails, the call
\* (read_reg itself, or new or read_sample through it) has issued exactly
\* one write and one read and returns the read's error; the buffer is left
\* as the failed read left it (old or partly new bytes), and nothing made
\* from it is returned: no sample and no FlightController.
C3_ReadFailureIsReturned ==
    (last.call # "none" /\ Len(last.resp) >= 2 /\ Answer(1).res = Ok
        /\ Answer(2).res \in Errors) =>
        /\ Trace = <<WriteOp(<<last.reg>>, Ok),
                     ReadOp(Len(last.buf0), Answer(2).res)>>
        /\ last.res = Answer(2).res
        /\ last.sample = NoSample
        /\ ~last.made
        /\ \A i \in 1..Len(last.buf) :
              last.buf[i] = IF i <= Answer(2).got THEN Answer(2).data[i]
                            ELSE last.buf0[i]

\* a failed read that left one new byte followed by one old byte
C3_Witness ==
    /\ last.call = "read_reg"
    /\ Answer(1).res = Ok
    /\ last.res = "EIO"
    /\ last.buf0 = <<238, 238>>
    /\ last.buf = <<104, 238>>

\* the wake-up write and the configuration write of new
WakeUp == <<PWR_MGMT_1, 0>>

Configuration == <<SMPLRT_DIV, 199, 6, 0, 0>>

\* C4: when the identity block read of new succeeds and the byte it
\* delivers differs from 0x68, new returns the identity-mismatch error, no
\* FlightController, and its bus trace is the identity write and read only:
\* neither the wake-up nor the configuration write is issued.
C4_IdentityMismatchStopsNew ==
    (last.call = "new" /\ Len(last.resp) >= 2 /\ Answer(1).res = Ok
        /\ Answer(2).res = Ok /\ Answer(2).data # <<WHO_AM_I_VALUE>>) =>
        /\ last.res = WhoAmIError
        /\ ~last.made
        /\ owner = "dropped"
        /\ Trace = <<WriteOp(<<WHO_AM_I>>, Ok), ReadOp(1, Ok)>>
        /\ \A i \in 1..Len(Trace) :
              Trace[i].data # WakeUp /\ Trace[i].data # Configuration

C4_Witness ==
    /\ last.call = "new"
    /\ last.res = WhoAmIError
    /\ last.buf = <<255>>
    /\ Len(log) = 2

\* the bus operations of a successful new, in order
NewOps == <<WriteOp(<<WHO_AM_I>>, Ok), ReadOp(1, Ok), WriteOp(WakeUp, Ok),
            WriteOp(Configuration, Ok)>>

\* C5: a successful new has the bus trace write [0x75], read 1 byte, write
\* [0x6b,0x00], write [0x19,199,0x06,0x00,0x00], each one bus call; when a
\* step fails the trace ends with that step, its error is returned and no
\* FlightController is made; a bus whose new failed sees no later operation.
C5_NewSequence ==
    last.call = "new" =>
        /\ (last.res = Ok) = last.made
        /\ last.made => Trace = NewOps
        /\ Len(Trace) <= Len(NewOps)
        /\ \A i \in 1..Len(Trace) :
              /\ Trace[i].op = NewOps[i].op
              /\ Trace[i].data = NewOps[i].data
              /\ Trace[i].len = NewOps[i].len
              /\ Trace[i].res = Answer(i).res
              /\ Answer(i).res \in Errors =>
                    /\ Len(Trace) = i
                    /\ last.res = Answer(i).res
                    /\ ~last.made
        /\ ~last.made => owner = "dropped" /\ Trace = log

C5_Witness ==
    /\ last.call = "new"
    /\ last.made
    /\ owner = "fc"
    /\ log = NewOps

\* C6: every read_sample call does one block read and nothing else on the
\* bus: one write of [0x3b], followed, when that write succeeds, by one read
\* of exactly 14 bytes; a returned sample always comes from one such read.
C6_SampleIsOneBlockRead ==
    last.call = "read_sample" =>
        /\ Trace[1] = WriteOp(<<ACCEL_XOUT_H>>, Answer(1).res)
        /\ Answer(1).res = Ok =>
              Trace = <<WriteOp(<<ACCEL_XOUT_H>>, Ok), ReadOp(14, Answer(2).res)>>
        /\ Answer(1).res # Ok => Len(Trace) = 1
        /\ last.res = Ok =>
              Trace = <<WriteOp(<<ACCEL_XOUT_H>>, Ok), ReadOp(14, Ok)>>

C6_Witness ==
    /\ last.call = "read_sample"
    /\ last.res = Ok
    /\ last.buf = Ramp
    /\ Len(Trace) = 2

\* the i-th (1..7) big-endian signed 16-bit value of 14 bytes
RawValue(bytes, i) ==
    LET u == 256 * bytes[2 * i - 1] + bytes[2 * i] IN
    IF u > 32767 THEN u - 65536 ELSE u

\* fraction f is the value raw / den
IsQuotient(f, raw, den) == f.den > 0 /\ f.num * den = raw * f.den

\* C7: a successful read_sample returns the seven big-endian signed 16-bit
\* values of the 14 bytes delivered, in the order accel-X, accel-Y, accel-Z,
\* temperature, gyro-X, gyro-Y, gyro-Z, each in -32768..32767, scaled as
\* raw/16384, raw/340 + 35 and raw/131; the bytes 0x10,0x00 and twelve zero
\* bytes give acceleration-X 0.25, temperature 35.0 and 0.0 elsewhere.
C7_DecodeBigEndian ==
    (last.call = "read_sample" /\ last.res = Ok) =>
        LET d == Answer(2).data
            m == last.sample[1]
            zero == [num |-> 0, den |-> 1]
        IN
        /\ Len(last.sample) = 1
        /\ \A i \in 1..7 : RawValue(d, i) \in -32768..32767
        /\ \A a \in 1..3 : IsQuotient(m.accel[a], RawValue(d, a), 16384)
        /\ IsQuotient([num |-> m.temp.num - 35 * m.temp.den, den |-> m.temp.den],
                      RawValue(d, 4), 340)
        /\ \A g \in 1..3 : IsQuotient(m.gyro[g], RawValue(d, 4 + g), 131)
        /\ d = <<16, 0, 0, 0, 0, 0, 0, 0, 0, 0, 0, 0, 0, 0>> =>
              /\ m.accel = <<[num |-> 1, den |-> 4], zero, zero>>
              /\ m.temp = [num |-> 35, den |-> 1]
              /\ m.gyro = <<zero, zero, zero>>

C7_Witness ==
    /\ last.call = "read_sample"
    /\ last.res = Ok
    /\ last.buf = <<16, 0, 0, 0, 0, 0, 0, 0, 0, 0, 0, 0, 0, 0>>
    /\ last.sample[1].accel[1] = [num |-> 1, den |-> 4]
    /\ last.sample[1].temp = [num |-> 35, den |-> 1]

\* what a successful read_sample returns for the 14 bytes d
DecodedFrom(m, d) ==
    /\ \A a \in 1..3 : IsQuotient(m.accel[a], RawValue(d, a), 16384)
    /\ IsQuotient([num |-> m.temp.num - 35 * m.temp.den, den |-> m.temp.den],
                  RawValue(d, 4), 340)
    /\ \A g \in 1..3 : IsQuotient(m.gyro[g], RawValue(d, 4 + g), 131)

\* C17: a read_sample call made after a failed one is a fresh call.  The
\* failed call has returned no sample; the next call starts from a zeroed
\* buffer and issues the same sequence, the write of [0x3b] and then the
\* read of 14 bytes, succeeds exactly when these two operations succeed, and
\* then returns the sample decoded from the 14 bytes of its own read, with
\* nothing of what the failed call had read.
C17_RetryAfterFailedSample ==
    (last.call = "read_sample" /\ prev.call = "read_sample" /\ prev.res # Ok)
    =>
        /\ prev.sample = NoSample
        /\ last.from = Len(log) - Len(Trace)
        /\ Trace[1] = WriteOp(<<ACCEL_XOUT_H>>, Answer(1).res)
        /\ Answer(1).res = Ok =>
              Trace = <<WriteOp(<<ACCEL_XOUT_H>>, Ok),
                        ReadOp(SAMPLE_LEN, Answer(2).res)>>
        /\ Answer(1).res # Ok => (Len(Trace) = 1 /\ last.res = Answer(1).res)
        /\ last.res = Ok <=>
              (Len(last.resp) = 2 /\ Answer(1).res = Ok /\ Answer(2).res = Ok)
        /\ last.res = Ok =>
              /\ last.buf = Answer(2).data
              /\ Len(last.sample) = 1
              /\ DecodedFrom(last.sample[1], Answer(2).data)

\* a call that failed after half of the bytes of one window is followed by a
\* call that returns the sample of another window
C17_Witness ==
    /\ prev.call = "read_sample"
    /\ prev.res \in Errors
    /\ prev.buf = [i \in 1..SAMPLE_LEN |-> IF i <= 7 THEN i ELSE 0]
    /\ last.call = "read_sample"
    /\ last.res = Ok
    /\ last.buf = OneWord(0, 16, 0)
    /\ last.sample[1].accel[1] = [num |-> 1, den |-> 4]

\* C18: no bus read happens without its register select.  In the trace of
\* any sequence of calls, failing ones included, every read is immediately
\* preceded by a successful write of one byte, and the two belong to one
\* call: the call that issued the read had issued that write before it.
C18_ReadFollowsItsSelect ==
    /\ \A i \in 1..Len(log) :
         log[i].op = "read" =>
            /\ i > 1
            /\ log[i - 1].op = "write"
            /\ log[i - 1].len = 1
            /\ log[i - 1].res = Ok
    /\ \A i \in 1..Len(Trace) :
         Trace[i].op = "read" =>
            /\ i > 1
            /\ Trace[i - 1] = WriteOp(<<last.reg>>, Ok)

\* three calls on one bus, the second failing in its read: three reads in
\* the trace, each after its own select
C18_Witness ==
    /\ ncalls = 3
    /\ prev.call = "read_sample" /\ prev.res \in Errors
    /\ Len(prev.resp) = 2
    /\ last.call = "read_sample" /\ last.res = Ok
    /\ Cardinality({i \in 1..Len(log) : log[i].op = "read"}) = 3

\* n successive read_i16 on a cursor: for each, where the cursor stood
\* before and after it, and its result
RECURSIVE CursorSteps(_, _)
CursorSteps(rdr, n) ==
    IF n = 0 THEN <<>>
    ELSE LET r == read_i16_BigEndian(rdr) IN
         <<[from |-> rdr.pos, to |-> r.rdr.pos, res |-> r.res]>>
             \o CursorSteps(r.rdr, n - 1)

\* C22: decoding cannot fail after a successful block read.  When the write
\* of [0x3b] and the read of 14 bytes both succeed, read_sample returns Ok
\* with a sample; the seven 16-bit reads on its buffer all succeed, the i-th
\* taking the bytes 2(i-1) and 2(i-1)+1, so that the bytes 0..13 are taken
\* once each in ascending order, and the cursor ends at 14, the length of the
\* buffer, never beyond it.  An error returned by read_sample is the
\* transport error of its write or of its read, and comes without a sample.
C22_DecodeCannotFail ==
    last.call = "read_sample" =>
        /\ (Len(last.resp) = 2 /\ Answer(1).res = Ok /\ Answer(2).res = Ok) =>
              LET steps == CursorSteps(Cursor(last.buf), 7) IN
              /\ last.res = Ok
              /\ Len(last.sample) = 1
              /\ Len(last.buf) = SAMPLE_LEN
              /\ \A i \in 1..7 :
                    /\ steps[i].res = Ok
                    /\ steps[i].from = 2 * (i - 1)
                    /\ steps[i].to = 2 * i
                    /\ steps[i].to <= Len(last.buf)
              /\ last.pos = steps[7].to
              /\ last.pos = Len(last.buf)
        /\ last.res \in {Ok} \cup Errors
        /\ last.res # Ok =>
              /\ last.res = Answer(Len(last.resp)).res
              /\ \A i \in 1..(Len(last.resp) - 1) : Answer(i).res = Ok
              /\ last.sample = NoSample

\* a block read of fourteen large bytes has succeeded and been decoded to
\* the end of the buffer
C22_Witness ==
    /\ last.call = "read_sample"
    /\ last.res = Ok
    /\ last.buf = HighRamp
    /\ last.pos = SAMPLE_LEN
    /\ Len(last.sample) = 1

----------------------------------------------------------------------------
(* Claims about the actor pipeline. *)

IsPrefix(s, t) == Len(s) <= Len(t) /\ \A i \in 1..Len(s) : s[i] = t[i]

\* C8: a channel actor delivers to its sink, in order, one processed sample
\* per raw sample it read from its scripted source, the i-th carrying the
\* payload of the i-th raw sample under the actor's own kind: nothing is
\* dropped, repeated or reordered, and an actor whose sink accepts has
\* delivered all k samples once its source of k samples is used up.
C8_ActorDeliversEachSample ==
    \A k \in Kinds :
        /\ IsPrefix(pulled[k], produced[k])
        /\ Len(sent[k]) <= Len(pulled[k])
        /\ \A i \in 1..Len(sent[k]) :
              /\ sent[k][i].data.val = produced[k][i].raw
              /\ sent[k][i].data.kind = k
        /\ apc[k] \in {"recv", "source_failed"} =>
              Len(sent[k]) = Len(pulled[k])
        /\ (apc[k] \in {"recv", "source_failed"} /\ rawq[k] = <<>>) =>
              Len(sent[k]) = Len(produced[k])

\* the gyro actor has delivered a script of three raw samples
C8_Witness ==
    /\ Len(produced["Gyro"]) = 3
    /\ rawq["Gyro"] = <<>>
    /\ apc["Gyro"] = "recv"
    /\ [i \in 1..3 |-> sent["Gyro"][i].data.val] = <<101, 102, 103>>
    /\ Len(sent["Gyro"]) = 3

\* fold(...fold(fold(acc, input_1), input_2)..., input_n)
RECURSIVE Fold(_, _)
Fold(acc, inputs) ==
    IF inputs = <<>> THEN acc
    ELSE Fold(join(acc, Head(inputs)), Tail(inputs))

\* C9: the fusion actor sends downstream one value per input it received,
\* in delivery order, the i-th being the fold of the default value over the
\* first i inputs; at the head of its loop it has sent exactly as many values
\* as it received and its loop state is the value it sent last (inside an
\* iteration, and after a failed delivery, the last input received is folded
\* and not sent).
C9_FoldOncePerInput ==
    LET inside == IF fpc \in {"send", "sink_failed"} THEN 1 ELSE 0 IN
    /\ Len(emitted) = Len(recvd) - inside
    /\ \A i \in 1..Len(emitted) :
          emitted[i] = Fold(FusedSensorOutput_default, SubSeq(recvd, 1, i))
    /\ fpc = "recv" =>
          /\ Len(emitted) = Len(recvd)
          /\ data = Fold(FusedSensorOutput_default, recvd)
          /\ emitted # <<>> => data = emitted[Len(emitted)]
    /\ fpc = "send" =>
          /\ fused = <<Fold(FusedSensorOutput_default, recvd)>>
          /\ fused = <<join(data, recvd[Len(recvd)])>>

\* four inputs of the three producers, interleaved, folded and sent
C9_Witness ==
    /\ fpc = "recv"
    /\ Len(recvd) = 4
    /\ Len(emitted) = 4
    /\ {recvd[i].tag : i \in 1..4} = Kinds
    /\ recvd[1].tag = "Mag"
    /\ recvd[4].tag = "Mag"

\* the values of one producer in a sequence of SensorInput values
FromProducer(inputs, k) == SelectSeq(inputs, LAMBDA m : m.tag = k)

\* C10: the SensorInput values the fusion actor has received from one
\* producer are a prefix of what that producer sent, in the order sent; with
\* what still waits in the fan-in channel they are exactly what the producer
\* sent: nothing is received twice, reordered or skipped.
C10_PerProducerOrder ==
    \A k \in Kinds :
        /\ IsPrefix(FromProducer(recvd, k), sent[k])
        /\ ~FusionDead => FromProducer(recvd \o fanin, k) = sent[k]

\* two accel values received around a mag value, a third still queued
C10_Witness ==
    /\ Len(recvd) = 3
    /\ recvd[1].tag = "Accel"
    /\ recvd[2].tag = "Mag"
    /\ recvd[3].tag = "Accel"
    /\ Len(sent["Accel"]) = 3
    /\ Len(fanin) = 1

----------------------------------------------------------------------------
(* fusion.rs, run and process: the accumulator is a local of the fusion
   thread. *)

\* the accumulator: run's `data` and, during a fold step, process's `fused`
Accumulator == <<data, fused>>

\* the fold steps in progress: inputs joined and not yet forwarded
FoldsInProgress == Len(fused)

\* C11: the accumulator has one writer.  In every reachable state at most one
\* fold step is in progress, and it is the fusion actor's own (it is at its
\* send exactly then); a step that changes the accumulator is a step of the
\* fusion actor, and it leaves the channel actors' state as it was; so no
\* step of a channel actor, of a source or of the consumer changes it.
C11_AccumulatorSingleWriter ==
    /\ [](/\ FoldsInProgress <= 1
          /\ (FoldsInProgress = 1) <=> (fpc = "send")
          /\ data = Fold(FusedSensorOutput_default, emitted))
    /\ [][(Accumulator' # Accumulator) =>
             /\ fpc' # fpc
             /\ UNCHANGED <<apc, held, pulled, sent, rawq, rawOpen, produced>>
             /\ UNCHANGED <<outOpen, taken>>]_vars
    /\ [][(<<apc, held, pulled, sent, rawq, rawOpen, produced, outOpen,
             taken>>' #
           <<apc, held, pulled, sent, rawq, rawOpen, produced, outOpen,
             taken>>) => UNCHANGED <<Accumulator, fpc>>]_vars

\* a fold is in progress while a channel actor holds a sample of its own and
\* the consumer has already taken an output
C11_Witness ==
    /\ fpc = "send"
    /\ FoldsInProgress = 1
    /\ apc["Gyro"] = "send"
    /\ Len(taken) = 1

----------------------------------------------------------------------------
(* accel.rs, gyro.rs, mag.rs and fusion.rs: the kinds are separate types. *)

\* the raw values the source of kind k is given
PayloadsOf(k) == {Payload(k, i) : i \in 1..MaxRaw}

\* a fusion input of the kind of producer k, built from one of its raw values
OfKind(m, k) == m.tag = k /\ m.data.kind = k /\ m.data.val \in PayloadsOf(k)

\* C12: no cross-kind coercion.  The sample a channel actor of kind K holds
\* is a raw sample of kind K from its own source, every fusion input it has
\* sent is tagged K and wraps a processed sample of kind K built from the raw
\* sample of kind K at the same position, and every fusion input queued in
\* the fan-in or received by the fusion actor has the tag of the kind of its
\* payload, which is a raw value of the source of that kind.
C12_NoCrossKindCoercion ==
    /\ \A k \in Kinds :
         /\ \A i \in 1..Len(rawq[k]) : rawq[k][i].kind = k
         /\ \A i \in 1..Len(held[k]) : held[k][i].kind = k
         /\ \A i \in 1..Len(pulled[k]) : pulled[k][i].kind = k
         /\ \A i \in 1..Len(sent[k]) :
              /\ OfKind(sent[k][i], k)
              /\ pulled[k][i].kind = k
              /\ sent[k][i].data.val = pulled[k][i].raw
    /\ \A i \in 1..Len(fanin) : OfKind(fanin[i], fanin[i].tag)
    /\ \A i \in 1..Len(recvd) :
         /\ OfKind(recvd[i], recvd[i].tag)
         /\ \E j \in 1..Len(sent[recvd[i].tag]) :
              sent[recvd[i].tag][j] = recvd[i]

\* the fusion actor has received an input of each of the three kinds
C12_Witness ==
    /\ Len(recvd) = 3
    /\ {recvd[i].tag : i \in 1..Len(recvd)} = Kinds
    /\ \A k \in Kinds : Len(sent[k]) = 1

----------------------------------------------------------------------------
(* unwrap() on recv() and send(): a failure ends the thread. *)

\* the positions of an actor's loop: at its read, at its send, or ended
ActorPositions == {"recv", "send", "source_failed", "sink_failed"}

\* the source of channel actor k has failed: nothing queued, sender dropped
SourceFailed(k) == rawq[k] = <<>> /\ ~rawOpen[k]

\* C13: a Source failure or a DeliveryFailure is unrecoverable.  The step of
\* an actor at its read with its source failed, and the step of an actor at
\* its send with the receiver of its sink gone, end the actor at that step
\* without a read or a delivery; an ended actor stays ended, and reads and
\* delivers nothing any more; there is no position of an actor other than
\* its read, its send and the two ends (no retry, no degraded state).  This
\* holds for the three channel actors and for the fusion actor.
C13_FailureIsFinal ==
    /\ [](fpc \in ActorPositions /\ \A k \in Kinds : apc[k] \in ActorPositions)
    /\ [][\A k \in Kinds :
            /\ ActorDead(k) =>
                 /\ apc'[k] = apc[k]
                 /\ pulled'[k] = pulled[k] /\ sent'[k] = sent[k]
                 /\ held'[k] = held[k] /\ rawq'[k] = rawq[k]
            /\ (apc[k] = "recv" /\ SourceFailed(k) /\ apc'[k] # apc[k]) =>
                 /\ apc'[k] = "source_failed"
                 /\ pulled'[k] = pulled[k] /\ sent'[k] = sent[k]
            /\ (apc[k] = "send" /\ FusionDead /\ apc'[k] # apc[k]) =>
                 /\ apc'[k] = "sink_failed"
                 /\ pulled'[k] = pulled[k] /\ sent'[k] = sent[k]]_vars
    /\ [][/\ FusionDead =>
               /\ fpc' = fpc
               /\ recvd' = recvd /\ emitted' = emitted /\ fanin' = fanin
               /\ UNCHANGED <<data, fused>>
          /\ (fpc = "recv" /\ fanin = <<>> /\ FaninSenders = 0
               /\ fpc' # fpc) =>
               /\ fpc' = "source_failed"
               /\ recvd' = recvd /\ emitted' = emitted
          /\ (fpc = "send" /\ ~outOpen /\ fpc' # fpc) =>
               /\ fpc' = "sink_failed"
               /\ recvd' = recvd /\ emitted' = emitted]_vars

\* one channel actor has ended on its source, another on its sink after the
\* fusion actor ended on its own sink, and the third still runs
C13_Witness ==
    /\ apc["Accel"] = "source_failed"
    /\ apc["Gyro"] = "sink_failed"
    /\ apc["Mag"] = "recv"
    /\ fpc = "sink_failed"
    /\ Len(pulled["Gyro"]) = Len(sent["Gyro"]) + 1

----------------------------------------------------------------------------
(* run(): loop { process(&source, &sink) } has no exit. *)

\* C14: a channel actor has no loop exit of its own.  It ends only at a step
\* from its read with its source failed or from its send with the receiver
\* of its sink gone, so while its source yields and its sink accepts it does
\* not end; and under fair scheduling of the threads every raw value put
\* into its source is eventually delivered to its sink, unless the sink has
\* stopped accepting.
C14_ActorRunsUntilFailure ==
    /\ [][\A k \in Kinds :
            (~ActorDead(k) /\ ActorDead(k)') =>
               \/ apc[k] = "recv" /\ SourceFailed(k)
                    /\ apc'[k] = "source_failed"
               \/ apc[k] = "send" /\ FusionDead
                    /\ apc'[k] = "sink_failed"]_vars
    /\ \A k \in Kinds : \A i \in 1..MaxRawFair :
         (Len(produced[k]) >= i) ~>
            (FusionDead \/ (Len(sent[k]) >= i
                             /\ sent[k][i].data.val = produced[k][i].raw))

\* a channel actor still runs after it has delivered every raw value put
\* into its source, with its source and its sink alive
C14_Witness ==
    /\ Len(produced["Mag"]) = 2
    /\ Len(sent["Mag"]) = 2
    /\ apc["Mag"] = "recv"
    /\ rawOpen["Mag"]
    /\ ~FusionDead

----------------------------------------------------------------------------
(* mpsc::channel(): recv() waits, send() does not. *)

\* C15: an actor waits only at its read.  A channel actor at its send can
\* always take its step, whatever the length of the fan-in queue, and while
\* the fusion actor's receiver exists that step queues its value and takes
\* it back to its read; the same holds for the fusion actor at its send.  An
\* actor at its read cannot step exactly when its queue is empty and a
\* sender of it still exists.
C15_OnlyReceiveBlocks ==
    /\ [](/\ \A k \in Kinds :
             /\ apc[k] = "send" => ENABLED ActorSend(k)
             /\ apc[k] = "recv" =>
                  ((ENABLED ActorRead(k)) <=> ~(rawq[k] = <<>> /\ rawOpen[k]))
          /\ fpc = "send" => ENABLED FusionSend
          /\ fpc = "recv" =>
               ((ENABLED FusionRead) <=> ~(fanin = <<>> /\ FaninSenders > 0)))
    /\ [][/\ \A k \in Kinds :
               (apc[k] = "send" /\ ~FusionDead /\ apc'[k] # apc[k]) =>
                  /\ apc'[k] = "recv"
                  /\ Len(fanin') = Len(fanin) + 1
                  /\ fanin'[Len(fanin')].tag = k
          /\ (fpc = "send" /\ outOpen /\ fpc' # fpc) =>
               /\ fpc' = "recv"
               /\ Len(outq') = Len(outq) + 1]_vars

\* a channel actor is at its send, and can step, while three values wait in
\* the fan-in queue of a running fusion actor
C15_Witness ==
    /\ Len(fanin) = 3
    /\ ~FusionDead
    /\ apc["Accel"] = "send"
    /\ ENABLED ActorSend("Accel")

----------------------------------------------------------------------------
(* One fan-in channel, three independent senders, no arbitration. *)

\* the kinds of a sequence of fusion inputs
Tags(inputs) == [i \in 1..Len(inputs) |-> inputs[i].tag]

\* C16: nothing arbitrates between the producers.  Whether a channel actor
\* can read or send depends on its own source and position only, never on
\* the other producers; a send appends to the fan-in queue at the moment it
\* happens, and the fusion actor folds the head of the queue whichever
\* producer it is from.  So the fold order is the order in which the sends
\* happened to be scheduled, and every order-preserving interleaving can
\* occur, among them one in which the first inputs folded all come from one
\* producer while the other two have raw samples waiting.
C16_NoArbitration ==
    /\ [](\A k \in Kinds :
            /\ (apc[k] = "recv" /\ rawq[k] # <<>>) => ENABLED ActorRead(k)
            /\ (apc[k] = "send") => ENABLED ActorSend(k))
    /\ [][\A k \in Kinds :
            (sent'[k] # sent[k]) =>
               /\ sent'[k] = Append(sent[k], fanin'[Len(fanin')])
               /\ fanin' = Append(fanin, sent'[k][Len(sent'[k])])]_vars
    /\ [][(recvd' # recvd) =>
            /\ fanin # <<>>
            /\ recvd' = Append(recvd, Head(fanin))
            /\ fanin' = Tail(fanin)]_vars

\* the first two inputs folded are both the accelerometer's, while the raw
\* samples of the gyroscope and of the magnetometer wait in their sources
C16_Witness ==
    /\ Tags(recvd) = <<"Accel", "Accel">>
    /\ Len(emitted) = 2
    /\ rawq["Gyro"] # <<>> /\ pulled["Gyro"] = <<>> /\ apc["Gyro"] = "recv"
    /\ rawq["Mag"] # <<>> /\ pulled["Mag"] = <<>> /\ apc["Mag"] = "recv"

----------------------------------------------------------------------------
(* fusion.rs: recv() on the fan-in fails only when it is empty and every
   sender is gone. *)

\* input m has been folded and its output forwarded downstream
Forwarded(m) == \E j \in 1..Len(recvd) : recvd[j] = m /\ Len(emitted) >= j

\* C19: the fusion actor's source fails only at a read with the fan-in empty
\* and the senders of all three channel actors dropped; while an input is
\* queued its read yields that input, however many producers have ended.
\* When the fusion actor has ended on its source, all three producers have
\* ended and every input any of them had sent has been folded and forwarded;
\* and under fair scheduling every input sent is eventually folded and
\* forwarded, unless the downstream consumer has dropped its receiver.
C19_FusionDrainsFanin ==
    /\ [][(fpc' = "source_failed" /\ fpc # "source_failed") =>
            /\ fpc = "recv"
            /\ fanin = <<>>
            /\ \A k \in Kinds : ActorDead(k)]_vars
    /\ [][(fpc = "recv" /\ fanin # <<>> /\ fpc' # fpc) =>
            /\ fpc' = "send"
            /\ recvd' = Append(recvd, Head(fanin))]_vars
    /\ [](fpc = "source_failed" =>
            /\ \A k \in Kinds : ActorDead(k)
            /\ \A k \in Kinds : FromProducer(recvd, k) = sent[k]
            /\ Len(emitted) = Len(recvd))
    /\ \A k \in Kinds : \A i \in 1..MaxRawFair :
         (Len(sent[k]) >= i) ~>
            (~outOpen \/ (Len(sent[k]) >= i /\ Forwarded(sent[k][i])))

\* two producers have ended, the inputs they had sent have been folded and
\* forwarded, and the fusion actor still runs, waiting on the third
C19_Witness ==
    /\ apc["Accel"] = "source_failed" /\ Len(sent["Accel"]) = 1
    /\ apc["Gyro"] = "source_failed" /\ Len(sent["Gyro"]) = 1
    /\ ~ActorDead("Mag")
    /\ fpc = "recv"
    /\ Forwarded(sent["Accel"][1])
    /\ Forwarded(sent["Gyro"][1])
    /\ outOpen

----------------------------------------------------------------------------
(* process() of a channel actor: one read, then one send. *)

\* C20: a channel actor handles one sample at a time.  The number of samples
\* it has delivered is the number it has pulled or exactly one less, one less
\* exactly while it holds a pulled sample before its send or has ended on a
\* failed delivery; it holds at most one sample, the last it pulled; what it
\* has delivered are the first samples it pulled, so it never delivers a
\* sample it has not pulled, and it pulls only when everything pulled before
\* has been delivered.
C20_OneSampleInFlight ==
    /\ [](\A k \in Kinds :
            /\ Len(pulled[k]) - Len(sent[k]) \in {0, 1}
            /\ (Len(pulled[k]) - Len(sent[k]) = 1) <=>
                  (apc[k] \in {"send", "sink_failed"})
            /\ Len(held[k]) <= 1
            /\ (Len(held[k]) = 1) <=> (apc[k] = "send")
            /\ apc[k] = "send" => held[k][1] = pulled[k][Len(pulled[k])]
            /\ \A i \in 1..Len(sent[k]) :
                  i <= Len(pulled[k]) /\ sent[k][i].data.val = pulled[k][i].raw)
    /\ [][\A k \in Kinds :
            /\ (pulled'[k] # pulled[k]) =>
                  /\ Len(sent[k]) = Len(pulled[k])
                  /\ Len(pulled'[k]) = Len(pulled[k]) + 1
            /\ (sent'[k] # sent[k]) =>
                  /\ Len(pulled[k]) = Len(sent[k]) + 1
                  /\ Len(sent'[k]) = Len(pulled[k])]_vars

\* a channel actor holds its second sample, the first delivered, while a
\* third waits in its source
C20_Witness ==
    /\ Len(pulled["Gyro"]) = 2
    /\ Len(sent["Gyro"]) = 1
    /\ apc["Gyro"] = "send"
    /\ Len(rawq["Gyro"]) = 1

----------------------------------------------------------------------------
(* A dropped receiver is noticed by the send only. *)

\* the sample channel actor k pulled last
LastPulled(k) == pulled[k][Len(pulled[k])]

\* input m carries raw sample s
Carries(m, s) == m.tag = s.kind /\ m.data.val = s.raw

\* raw sample s has been delivered somewhere: sent, queued or received
Delivered(s) ==
    \/ \E i \in 1..Len(sent[s.kind]) : Carries(sent[s.kind][i], s)
    \/ \E i \in 1..Len(fanin) : Carries(fanin[i], s)
    \/ \E i \in 1..Len(recvd) : Carries(recvd[i], s)

\* C21: a failure travels upstream at the next delivery attempt and costs one
\* sample.  With the consumer's receiver dropped the fusion actor at its read
\* still takes and folds the next input, and it ends only by a step from its
\* send, which forwards nothing: it has then received one input more than it
\* has forwarded.  With the fusion actor ended a channel actor at its read
\* still pulls the next raw sample, and it ends on its sink only by a step
\* from its send: it has then pulled one sample more than it has delivered,
\* and that sample has left its source and is delivered nowhere.  Under fair
\* scheduling an actor at its send with its receiver gone does end.
C21_FailureCostsOneSample ==
    /\ [][(fpc' = "sink_failed" /\ fpc # "sink_failed") =>
            /\ fpc = "send"
            /\ ~outOpen
            /\ recvd' = recvd /\ emitted' = emitted]_vars
    /\ [][(fpc = "recv" /\ ~outOpen /\ fpc' # fpc /\ fanin # <<>>) =>
            /\ fpc' = "send"
            /\ recvd' = Append(recvd, Head(fanin))]_vars
    /\ [](fpc = "sink_failed" =>
            /\ ~outOpen
            /\ Len(recvd) = Len(emitted) + 1)
    /\ [][\A k \in Kinds :
            /\ (apc'[k] = "sink_failed" /\ apc[k] # "sink_failed") =>
                  /\ apc[k] = "send"
                  /\ FusionDead
                  /\ pulled'[k] = pulled[k] /\ sent'[k] = sent[k]
                  /\ fanin' = fanin
            /\ (apc[k] = "recv" /\ FusionDead /\ apc'[k] # apc[k]
                 /\ rawq[k] # <<>>) =>
                  /\ apc'[k] = "send"
                  /\ pulled'[k] = Append(pulled[k], Head(rawq[k]))
                  /\ rawq'[k] = Tail(rawq[k])]_vars
    /\ [](\A k \in Kinds :
            apc[k] = "sink_failed" =>
               /\ FusionDead
               /\ Len(pulled[k]) = Len(sent[k]) + 1
               /\ LastPulled(k) = produced[k][Len(pulled[k])]
               /\ \A i \in 1..Len(rawq[k]) : rawq[k][i] # LastPulled(k)
               /\ held[k] = <<>>
               /\ ~Delivered(LastPulled(k)))
    /\ (~outOpen /\ fpc = "send") ~> (fpc = "sink_failed")
    /\ \A k \in Kinds :
         (FusionDead /\ apc[k] = "send") ~> (apc[k] = "sink_failed")

\* the consumer has dropped its receiver, the fusion actor has ended at its
\* send with one input received and none forwarded, and a channel actor has
\* ended at its send with one sample pulled and none delivered
C21_Witness ==
    /\ ~outOpen
    /\ fpc = "sink_failed"
    /\ Len(recvd) = 1 /\ emitted = <<>>
    /\ apc["Gyro"] = "sink_failed"
    /\ Len(pulled["Gyro"]) = 1 /\ sent["Gyro"] = <<>>
    /\ rawq["Gyro"] = <<>>

=============================================================================
